---- MODULE Spec2Model ----
(***************************************************************************)
(* A model of the ZooKeeper-backed terraform state store (StateStore) and  *)
(* of the callers that run its operations concurrently.                    *)
(*                                                                         *)
(* Every StateStore method is a sequence of calls on a fresh ZooKeeper     *)
(* connection: zk.Connect, then conn.Exists / conn.Get, then at most one   *)
(* of conn.Create / conn.Set / conn.Delete.  Each of those calls is one    *)
(* atomic step of the model, so that the calls of concurrent requests      *)
(* interleave exactly as the service can order them.                       *)
(***************************************************************************)
EXTENDS Integers, Sequences, FiniteSets, TLC

VARIABLES
    nodes,          \* the znodes of the service: path -> [data, version]
    up,             \* whether the service answers (connect and calls succeed)
    pc,             \* per caller: the next call its store method makes
    op,             \* per caller: the store method being run
    name,           \* per caller: the name parameter
    body,           \* per caller: the state / lockinfo parameter
    exists,         \* per caller: the local `exists` of the method
    stat,           \* per caller: stat.Version as read by conn.Exists
    zkerr,          \* per caller: the error of the last connection call
    err,            \* per caller: the error the method returns
    alreadyLocked,  \* per caller: Lock's first return value
    data,           \* per caller: the bytes the method returns
    trace,          \* per caller: the connection calls made by this method call
    ncalls,         \* number of store method calls started so far
    hist,           \* completed calls, in order of return (sequential runs)
    wins,           \* per path: Lock calls that returned (false, nil) since
                    \* the node at that path was last removed
    fresh           \* per caller: no other call has written the caller's
                    \* znode since the caller's conn.Exists

vars == <<nodes, up, pc, op, name, body, exists, stat, zkerr, err,
          alreadyLocked, data, trace, ncalls, hist, wins, fresh>>

----------------------------------------------------------------------------
(* Bounds of the model *)

NumCallers == 2       \* concurrent callers
MaxCalls == 2         \* calls started in a concurrent run
MaxSeqCalls == 3      \* calls started in a sequential run
MaxVersion == 2       \* version of a state stored before a race begins
MaxRaceCalls == 3     \* calls started in a run of Update and Delete requests
MaxLockCalls == 4     \* calls started in a run of Lock and Unlock requests

Callers == 1..NumCallers

(* Request names: pat.Param(r, "name") is any non-empty path segment. *)
Names == {"a", "lock-a"}

(* Request bodies: opaque bytes, the empty body included. *)
Empty == ""
Payloads == {Empty, "s1"}

Ops == {"Get", "Update", "Delete", "Lock", "Unlock"}

----------------------------------------------------------------------------
(* The error values of state_store.go *)

Nil == "nil"
ErrConn == "ErrConn"
ErrNotExist == "ErrNotExist"
ErrCreate == "ErrCreate"
ErrUpdate == "ErrUpdate"
ErrDelete == "ErrDelete"
ErrRead == "ErrRead"
ErrWrite == "ErrWrite"

(* The znode of a state and of a lock *)
StatePath(n) == "/" \o n
LockPath(n) == "/lock-" \o n

Paths == {StatePath(n) : n \in Names} \cup {LockPath(n) : n \in Names}

(* The znode a method works on *)
Znode(o, n) == IF o \in {"Lock", "Unlock"} THEN LockPath(n) ELSE StatePath(n)

----------------------------------------------------------------------------
(* The coordination service: the outcome of each connection call in the    *)
(* current state of the service.                                           *)

ZkOk == "ok"
ZkNoNode == "zk.ErrNoNode"
ZkNodeExists == "zk.ErrNodeExists"
ZkBadVersion == "zk.ErrBadVersion"
ZkClosed == "zk.ErrConnectionClosed"

Present(path) == path \in DOMAIN nodes

ZkExistsErr == IF up THEN ZkOk ELSE ZkClosed

ZkGetErr(path) ==
    IF ~up THEN ZkClosed
    ELSE IF Present(path) THEN ZkOk ELSE ZkNoNode

ZkCreateErr(path) ==
    IF ~up THEN ZkClosed
    ELSE IF Present(path) THEN ZkNodeExists ELSE ZkOk

ZkVersionedErr(path, version) ==
    IF ~up THEN ZkClosed
    ELSE IF ~Present(path) THEN ZkNoNode
    ELSE IF nodes[path].version # version THEN ZkBadVersion
    ELSE ZkOk

ZkCreated(path, d) ==
    [q \in DOMAIN nodes \cup {path} |->
        IF q = path THEN [data |-> d, version |-> 0] ELSE nodes[q]]

ZkWritten(path, d) ==
    [nodes EXCEPT ![path] = [data |-> d, version |-> @.version + 1]]

ZkDeleted(path) == [q \in DOMAIN nodes \ {path} |-> nodes[q]]

----------------------------------------------------------------------------
(* No request has arrived yet. *)
NoCalls ==
    /\ up = TRUE
    /\ pc = [p \in Callers |-> "idle"]
    /\ op = [p \in Callers |-> "Get"]
    /\ name = [p \in Callers |-> "a"]
    /\ body = [p \in Callers |-> Empty]
    /\ exists = [p \in Callers |-> FALSE]
    /\ stat = [p \in Callers |-> 0]
    /\ zkerr = [p \in Callers |-> ZkOk]
    /\ err = [p \in Callers |-> Nil]
    /\ alreadyLocked = [p \in Callers |-> FALSE]
    /\ data = [p \in Callers |-> Empty]
    /\ trace = [p \in Callers |-> <<>>]
    /\ ncalls = 0
    /\ hist = <<>>
    /\ wins = [q \in Paths |-> 0]
    /\ fresh = [p \in Callers |-> TRUE]

(* The service holds no node. *)
Init == nodes = <<>> /\ NoCalls

(* The service holds nothing, or one state that earlier Update calls have  *)
(* written: created (version 0) and then set up to MaxVersion times.       *)
Stored ==
    {(StatePath(n) :> [data |-> d, version |-> v]) :
        n \in Names, d \in Payloads, v \in 0..MaxVersion}

InitStored == nodes \in {<<>>} \cup Stored /\ NoCalls

----------------------------------------------------------------------------
(* Bookkeeping shared by the steps of the store methods *)

(* The method of caller p makes connection call c, which ends with e. *)
Called(p, c, e) ==
    /\ trace' = [trace EXCEPT ![p] = Append(@, c)]
    /\ zkerr' = [zkerr EXCEPT ![p] = e]

(* The node at path q is the same before and after the step. *)
SameNode(q) ==
    /\ Present(q) <=> q \in DOMAIN nodes'
    /\ Present(q) => nodes'[q] = nodes[q]

(* Caller r is between its conn.Exists and the call that follows it. *)
InWindow(r) == pc[r] \in {"create", "set", "delete"} \/ (pc[r] = "get" /\ op[r] = "Lock")

(* The method of caller p returns (l, d, e); nodes' is already set.  A     *)
(* removed node starts a new instance of its path; a Lock that returns     *)
(* (false, nil) counts as an acquisition of the current instance; a write  *)
(* to the znode of a caller that has checked it and not yet acted on it    *)
(* is recorded for that caller.                                            *)
Ret(p, e, l, d) ==
    /\ pc' = [pc EXCEPT ![p] = "done"]
    /\ err' = [err EXCEPT ![p] = e]
    /\ alreadyLocked' = [alreadyLocked EXCEPT ![p] = l]
    /\ data' = [data EXCEPT ![p] = d]
    /\ wins' = [q \in Paths |->
                  IF q \in DOMAIN nodes /\ q \notin DOMAIN nodes' THEN 0
                  ELSE IF op[p] = "Lock" /\ e = Nil /\ ~l /\ q = LockPath(name[p])
                       THEN wins[q] + 1
                       ELSE wins[q]]
    /\ fresh' = [r \in Callers |->
                   IF r = p THEN TRUE
                   ELSE IF InWindow(r) /\ ~SameNode(Znode(op[r], name[r])) THEN FALSE
                   ELSE fresh[r]]

(* The method of caller p goes on to its next connection call. *)
Goto(p, next) ==
    /\ pc' = [pc EXCEPT ![p] = next]
    /\ UNCHANGED <<err, alreadyLocked, data, wins, fresh>>

----------------------------------------------------------------------------
(* Faulty variant of Request: the error of zk.Connect is not looked at and  *)
(* the method goes on to its first connection call.                        *)
RequestIgnoresConnectError(p, ops, max) ==
    /\ pc[p] \in {"idle", "done"}
    /\ ncalls < max
    /\ ncalls' = ncalls + 1
    /\ \E o \in ops, n \in Names, b \in Payloads :
          /\ (o \notin {"Update", "Lock"} => b = Empty)
          /\ op' = [op EXCEPT ![p] = o]
          /\ name' = [name EXCEPT ![p] = n]
          /\ body' = [body EXCEPT ![p] = b]
          /\ pc' = [pc EXCEPT ![p] = IF o = "Get" THEN "get" ELSE "exists"]
    /\ exists' = [exists EXCEPT ![p] = FALSE]
    /\ stat' = [stat EXCEPT ![p] = 0]
    /\ trace' = [trace EXCEPT ![p] = <<"connect">>]
    /\ zkerr' = [zkerr EXCEPT ![p] = IF up THEN ZkOk ELSE ZkClosed]
    /\ err' = [err EXCEPT ![p] = Nil]
    /\ alreadyLocked' = [alreadyLocked EXCEPT ![p] = FALSE]
    /\ data' = [data EXCEPT ![p] = Empty]
    /\ UNCHANGED <<nodes, up, hist, wins, fresh>>

(* The transport layer calls one store method per request; the method     *)
(* begins with zk.Connect(store.Zks, time.Second) and returns ErrConn      *)
(* when that fails.  Nothing of an earlier call of the caller is kept.     *)
Request(p, ops, max) ==
    /\ pc[p] \in {"idle", "done"}
    /\ ncalls < max
    /\ ncalls' = ncalls + 1
    /\ \E o \in ops, n \in Names, b \in Payloads :
          /\ (o \notin {"Update", "Lock"} => b = Empty)
          /\ op' = [op EXCEPT ![p] = o]
          /\ name' = [name EXCEPT ![p] = n]
          /\ body' = [body EXCEPT ![p] = b]
          /\ pc' = [pc EXCEPT ![p] =
                      IF ~up THEN "done" ELSE IF o = "Get" THEN "get" ELSE "exists"]
    /\ exists' = [exists EXCEPT ![p] = FALSE]
    /\ stat' = [stat EXCEPT ![p] = 0]
    /\ trace' = [trace EXCEPT ![p] = <<"connect">>]
    /\ zkerr' = [zkerr EXCEPT ![p] = IF up THEN ZkOk ELSE ZkClosed]
    /\ err' = [err EXCEPT ![p] = IF up THEN Nil ELSE ErrConn]
    /\ alreadyLocked' = [alreadyLocked EXCEPT ![p] = FALSE]
    /\ data' = [data EXCEPT ![p] = Empty]
    /\ UNCHANGED <<nodes, up, hist, wins, fresh>>

(* A request of a concurrent run *)
Call(p) == Request(p, Ops, MaxCalls)

(* A request of a sequential run: no other request is being served. *)
SeqCall(p) ==
    /\ \A q \in Callers : pc[q] = "idle"
    /\ Request(p, Ops, MaxSeqCalls)

(* One Lock request per caller, every caller racing the others *)
LockCall(p) ==
    /\ pc[p] = "idle"
    /\ Request(p, {"Lock"}, NumCallers)

(* One Update request per caller, every caller racing the others *)
UpdateCall(p) ==
    /\ pc[p] = "idle"
    /\ Request(p, {"Update"}, NumCallers)

(* Update and Delete requests of a concurrent run *)
StateCall(p) == Request(p, {"Update", "Delete"}, MaxRaceCalls)

(* Lock and Unlock requests of a concurrent run *)
LockUnlockCall(p) == Request(p, {"Lock", "Unlock"}, MaxLockCalls)

(* Faulty variant of GetGet: a missing node is returned as empty state. *)
GetGetAbsentIsEmpty(p) ==
    /\ pc[p] = "get" /\ op[p] = "Get"
    /\ LET znode == StatePath(name[p])
           e == ZkGetErr(znode)
       IN /\ nodes' = nodes
          /\ Called(p, "get", e)
          /\ Ret(p, IF e \in {ZkOk, ZkNoNode} THEN Nil ELSE ErrRead,
                 FALSE,
                 IF e = ZkOk THEN nodes[znode].data ELSE Empty)
    /\ UNCHANGED <<up, op, name, body, exists, stat, ncalls, hist>>

(* Get: conn.Get(znode) and the switch on its error *)
GetGet(p) ==
    /\ pc[p] = "get" /\ op[p] = "Get"
    /\ LET znode == StatePath(name[p])
           e == ZkGetErr(znode)
       IN /\ nodes' = nodes
          /\ Called(p, "get", e)
          /\ Ret(p, IF e = ZkOk THEN Nil
                    ELSE IF e = ZkNoNode THEN ErrNotExist ELSE ErrRead,
                 FALSE,
                 IF e = ZkOk THEN nodes[znode].data ELSE Empty)
    /\ UNCHANGED <<up, op, name, body, exists, stat, ncalls, hist>>

(* conn.Exists(znode) of Update, Delete, Lock and Unlock; `next` is the    *)
(* call the method makes when the node exists, `absent` the one it makes   *)
(* when it does not ("return": the method returns absentErr).              *)
ExistsStep(p, present, absent, absentErr) ==
    /\ pc[p] = "exists"
    /\ LET znode == Znode(op[p], name[p])
           e == ZkExistsErr
       IN /\ nodes' = nodes
          /\ Called(p, "exists", e)
          /\ exists' = [exists EXCEPT ![p] = (e = ZkOk /\ Present(znode))]
          /\ stat' = [stat EXCEPT ![p] =
                        IF e = ZkOk /\ Present(znode)
                        THEN nodes[znode].version ELSE 0]
          /\ IF e # ZkOk THEN Ret(p, ErrRead, FALSE, Empty)
             ELSE IF Present(znode) THEN Goto(p, present)
             ELSE IF absent = "return" THEN Ret(p, absentErr, FALSE, Empty)
             ELSE Goto(p, absent)
    /\ UNCHANGED <<up, op, name, body, ncalls, hist>>

(* Faulty variant of UpdateExists: the result of the exists check is not used. *)
UpdateExistsAlwaysCreate(p) == op[p] = "Update" /\ ExistsStep(p, "create", "create", Nil)

UpdateExists(p) == op[p] = "Update" /\ ExistsStep(p, "set", "create", Nil)

(* Faulty variant of UpdateCreate: a create that finds the node is taken   *)
(* for a success.                                                          *)
UpdateCreateIgnoresNodeExists(p) ==
    /\ pc[p] = "create" /\ op[p] = "Update"
    /\ LET znode == StatePath(name[p])
           e == ZkCreateErr(znode)
       IN /\ nodes' = IF e = ZkOk THEN ZkCreated(znode, body[p]) ELSE nodes
          /\ Called(p, "create", e)
          /\ Ret(p, IF e \in {ZkOk, ZkNodeExists} THEN Nil ELSE ErrCreate, FALSE, Empty)
    /\ UNCHANGED <<up, op, name, body, exists, stat, ncalls, hist>>

(* Faulty variant of UpdateCreate: the node is created under the lock      *)
(* prefix.                                                                 *)
UpdateCreateAtLockPath(p) ==
    /\ pc[p] = "create" /\ op[p] = "Update"
    /\ LET znode == LockPath(name[p])
           e == ZkCreateErr(znode)
       IN /\ nodes' = IF e = ZkOk THEN ZkCreated(znode, body[p]) ELSE nodes
          /\ Called(p, "create", e)
          /\ Ret(p, IF e = ZkOk THEN Nil ELSE ErrCreate, FALSE, Empty)
    /\ UNCHANGED <<up, op, name, body, exists, stat, ncalls, hist>>

(* Update: conn.Create(znode, state, 0, acl) when the node does not exist *)
UpdateCreate(p) ==
    /\ pc[p] = "create" /\ op[p] = "Update"
    /\ LET znode == StatePath(name[p])
           e == ZkCreateErr(znode)
       IN /\ nodes' = IF e = ZkOk THEN ZkCreated(znode, body[p]) ELSE nodes
          /\ Called(p, "create", e)
          /\ Ret(p, IF e = ZkOk THEN Nil ELSE ErrCreate, FALSE, Empty)
    /\ UNCHANGED <<up, op, name, body, exists, stat, ncalls, hist>>

(* Faulty variant of UpdateSet: the write is not fenced by the version read. *)
UpdateSetUnfenced(p) ==
    /\ pc[p] = "set" /\ op[p] = "Update"
    /\ LET znode == StatePath(name[p])
           e == IF ~up THEN ZkClosed ELSE IF ~Present(znode) THEN ZkNoNode ELSE ZkOk
       IN /\ nodes' = IF e = ZkOk THEN ZkWritten(znode, body[p]) ELSE nodes
          /\ Called(p, "set", e)
          /\ Ret(p, IF e = ZkOk THEN Nil ELSE ErrUpdate, FALSE, Empty)
    /\ UNCHANGED <<up, op, name, body, exists, stat, ncalls, hist>>

(* Faulty variant of UpdateSet: the version after the write is passed instead of   *)
(* the version read.                                                       *)
UpdateSetNextVersion(p) ==
    /\ pc[p] = "set" /\ op[p] = "Update"
    /\ LET znode == StatePath(name[p])
           e == ZkVersionedErr(znode, stat[p] + 1)
       IN /\ nodes' = IF e = ZkOk THEN ZkWritten(znode, body[p]) ELSE nodes
          /\ Called(p, "set", e)
          /\ Ret(p, IF e = ZkOk THEN Nil ELSE ErrUpdate, FALSE, Empty)
    /\ UNCHANGED <<up, op, name, body, exists, stat, ncalls, hist>>

(* Update: conn.Set(znode, state, stat.Version) when the node exists *)
UpdateSet(p) ==
    /\ pc[p] = "set" /\ op[p] = "Update"
    /\ LET znode == StatePath(name[p])
           e == ZkVersionedErr(znode, stat[p])
       IN /\ nodes' = IF e = ZkOk THEN ZkWritten(znode, body[p]) ELSE nodes
          /\ Called(p, "set", e)
          /\ Ret(p, IF e = ZkOk THEN Nil ELSE ErrUpdate, FALSE, Empty)
    /\ UNCHANGED <<up, op, name, body, exists, stat, ncalls, hist>>

(* Faulty variant of DeleteExists: deleting what is not there counts as done. *)
DeleteExistsAbsentIsNil(p) == op[p] = "Delete" /\ ExistsStep(p, "delete", "return", Nil)

DeleteExists(p) == op[p] = "Delete" /\ ExistsStep(p, "delete", "return", ErrNotExist)

(* Delete and Unlock: conn.Delete(znode, stat.Version) *)
DeleteStep(p) ==
    /\ pc[p] = "delete"
    /\ LET znode == Znode(op[p], name[p])
           e == ZkVersionedErr(znode, stat[p])
       IN /\ nodes' = IF e = ZkOk THEN ZkDeleted(znode) ELSE nodes
          /\ Called(p, "delete", e)
          /\ Ret(p, IF e = ZkOk THEN Nil ELSE ErrDelete, FALSE, Empty)
    /\ UNCHANGED <<up, op, name, body, exists, stat, ncalls, hist>>

DeleteDelete(p) == op[p] = "Delete" /\ DeleteStep(p)

LockExists(p) == op[p] = "Lock" /\ ExistsStep(p, "get", "create", Nil)

(* Faulty variant of LockGet: the caller is handed back its own lockinfo. *)
LockGetOwnInfo(p) ==
    /\ pc[p] = "get" /\ op[p] = "Lock"
    /\ LET znode == LockPath(name[p])
           e == ZkGetErr(znode)
       IN /\ nodes' = nodes
          /\ Called(p, "get", e)
          /\ IF e = ZkOk
               THEN Ret(p, Nil, TRUE, body[p])
               ELSE Ret(p, ErrRead, FALSE, Empty)
    /\ UNCHANGED <<up, op, name, body, exists, stat, ncalls, hist>>

(* Lock: conn.Get(znode) when the lock node exists *)
LockGet(p) ==
    /\ pc[p] = "get" /\ op[p] = "Lock"
    /\ LET znode == LockPath(name[p])
           e == ZkGetErr(znode)
       IN /\ nodes' = nodes
          /\ Called(p, "get", e)
          /\ IF e = ZkOk
               THEN Ret(p, Nil, TRUE, nodes[znode].data)
               ELSE Ret(p, ErrRead, FALSE, Empty)
    /\ UNCHANGED <<up, op, name, body, exists, stat, ncalls, hist>>

(* Faulty variant of LockCreate: a create that finds the node makes the    *)
(* method read the node as it does for a lock that exists.                 *)
LockCreateThenGet(p) ==
    /\ pc[p] = "create" /\ op[p] = "Lock"
    /\ LET znode == LockPath(name[p])
           e == ZkCreateErr(znode)
       IN /\ nodes' = IF e = ZkOk THEN ZkCreated(znode, body[p]) ELSE nodes
          /\ Called(p, "create", e)
          /\ IF e = ZkOk THEN Ret(p, Nil, FALSE, body[p])
             ELSE IF e = ZkNodeExists THEN Goto(p, "get")
             ELSE Ret(p, ErrCreate, FALSE, Empty)
    /\ UNCHANGED <<up, op, name, body, exists, stat, ncalls, hist>>

(* Faulty variant of LockCreate: the test of the create's error is         *)
(* inverted.                                                               *)
LockCreateInvertedCheck(p) ==
    /\ pc[p] = "create" /\ op[p] = "Lock"
    /\ LET znode == LockPath(name[p])
           e == ZkCreateErr(znode)
       IN /\ nodes' = IF e = ZkOk THEN ZkCreated(znode, body[p]) ELSE nodes
          /\ Called(p, "create", e)
          /\ IF e # ZkOk
               THEN Ret(p, Nil, FALSE, body[p])
               ELSE Ret(p, ErrCreate, FALSE, Empty)
    /\ UNCHANGED <<up, op, name, body, exists, stat, ncalls, hist>>

(* Faulty variant of LockCreate: a create that finds the node is taken for a   *)
(* success.                                                                *)
LockCreateIgnoresNodeExists(p) ==
    /\ pc[p] = "create" /\ op[p] = "Lock"
    /\ LET znode == LockPath(name[p])
           e == ZkCreateErr(znode)
       IN /\ nodes' = IF e = ZkOk THEN ZkCreated(znode, body[p]) ELSE nodes
          /\ Called(p, "create", e)
          /\ IF e \in {ZkOk, ZkNodeExists}
               THEN Ret(p, Nil, FALSE, body[p])
               ELSE Ret(p, ErrCreate, FALSE, Empty)
    /\ UNCHANGED <<up, op, name, body, exists, stat, ncalls, hist>>

(* Lock: conn.Create(znode, lockinfo, 0, acl) when the lock node is absent *)
LockCreate(p) ==
    /\ pc[p] = "create" /\ op[p] = "Lock"
    /\ LET znode == LockPath(name[p])
           e == ZkCreateErr(znode)
       IN /\ nodes' = IF e = ZkOk THEN ZkCreated(znode, body[p]) ELSE nodes
          /\ Called(p, "create", e)
          /\ IF e = ZkOk
               THEN Ret(p, Nil, FALSE, body[p])
               ELSE Ret(p, ErrCreate, FALSE, Empty)
    /\ UNCHANGED <<up, op, name, body, exists, stat, ncalls, hist>>

(* Faulty variant of UnlockExists: the delete is attempted whether or not the lock *)
(* node exists.                                                            *)
UnlockExistsThenDelete(p) == op[p] = "Unlock" /\ ExistsStep(p, "delete", "delete", Nil)

UnlockExists(p) == op[p] = "Unlock" /\ ExistsStep(p, "delete", "return", ErrNotExist)

(* Faulty variant of UnlockDelete: nil is returned without the delete call. *)
UnlockDeleteSkipped(p) ==
    /\ op[p] = "Unlock" /\ pc[p] = "delete"
    /\ nodes' = nodes
    /\ UNCHANGED <<trace, zkerr>>
    /\ Ret(p, Nil, FALSE, Empty)
    /\ UNCHANGED <<up, op, name, body, exists, stat, ncalls, hist>>

UnlockDelete(p) == op[p] = "Unlock" /\ DeleteStep(p)

(* The record of a completed call *)
Record(p) ==
    [op |-> op[p], name |-> name[p], body |-> body[p], exists |-> exists[p],
     stat |-> stat[p], err |-> err[p], alreadyLocked |-> alreadyLocked[p],
     data |-> data[p], trace |-> trace[p]]

(* The method has returned (deferred conn.Close() included) and its       *)
(* result is kept in the history of completed calls.                       *)
ReturnLog(p) ==
    /\ pc[p] = "done"
    /\ hist' = Append(hist, Record(p))
    /\ pc' = [pc EXCEPT ![p] = "idle"]
    /\ op' = [op EXCEPT ![p] = "Get"]
    /\ name' = [name EXCEPT ![p] = "a"]
    /\ body' = [body EXCEPT ![p] = Empty]
    /\ exists' = [exists EXCEPT ![p] = FALSE]
    /\ stat' = [stat EXCEPT ![p] = 0]
    /\ zkerr' = [zkerr EXCEPT ![p] = ZkOk]
    /\ err' = [err EXCEPT ![p] = Nil]
    /\ alreadyLocked' = [alreadyLocked EXCEPT ![p] = FALSE]
    /\ data' = [data EXCEPT ![p] = Empty]
    /\ trace' = [trace EXCEPT ![p] = <<>>]
    /\ UNCHANGED <<nodes, up, ncalls, wins, fresh>>

(* The service becomes unreachable, or reachable again. *)
ServiceDown ==
    /\ up
    /\ up' = FALSE
    /\ UNCHANGED <<nodes, pc, op, name, body, exists, stat, zkerr, err,
                   alreadyLocked, data, trace, ncalls, hist, wins, fresh>>

ServiceUp ==
    /\ ~up
    /\ up' = TRUE
    /\ UNCHANGED <<nodes, pc, op, name, body, exists, stat, zkerr, err,
                   alreadyLocked, data, trace, ncalls, hist, wins, fresh>>

----------------------------------------------------------------------------
(* The transport layer: what each handler of the Server writes to the     *)
(* http.ResponseWriter for the result of its store call.                   *)

StatusOK == 200
StatusNoContent == 204
StatusNotFound == 404
StatusLocked == 423
StatusInternalServerError == 500

(* err.Error() *)
ErrorText(e) ==
    CASE e = ErrConn -> "zk-terraform-backend: cannot connect to zk"
      [] e = ErrNotExist -> "zk-terraform-backend: cannot found znode"
      [] e = ErrCreate -> "zk-terraform-backend: cannot create znode"
      [] e = ErrUpdate -> "zk-terraform-backend: cannot update znode"
      [] e = ErrDelete -> "zk-terraform-backend: cannot delete znode"
      [] e = ErrRead -> "zk-terraform-backend: cannot read znode"
      [] e = ErrWrite -> "zk-terraform-backend: cannot write to znode"

(* w.WriteHeader(status) followed by the write of b *)
Written(status, b) == [wrote |-> TRUE, status |-> status, body |-> b]

(* The handler returns without a call on w: no case of its switch matched. *)
(* The response then goes out with the default status and no body.         *)
NothingWritten == [wrote |-> FALSE, status |-> StatusOK, body |-> Empty]

(* The first case of a switch that lists the value is the one that runs. *)
ServerGet(state, e) ==
    IF e \in {ErrConn, ErrRead} THEN Written(StatusInternalServerError, ErrorText(e))
    ELSE IF e = ErrNotExist THEN Written(StatusNotFound, ErrorText(e))
    ELSE IF e = Nil THEN Written(StatusOK, state)
    ELSE NothingWritten

ServerUpdate(e) ==
    IF e \in {ErrConn, ErrRead, ErrCreate, ErrWrite}
      THEN Written(StatusInternalServerError, ErrorText(e))
    ELSE IF e = Nil THEN Written(StatusNoContent, Empty)
    ELSE NothingWritten

ServerDelete(e) ==
    IF e \in {ErrConn, ErrNotExist, ErrDelete}
      THEN Written(StatusInternalServerError, ErrorText(e))
    ELSE IF e = ErrNotExist THEN Written(StatusNotFound, ErrorText(e))
    ELSE IF e = Nil THEN Written(StatusOK, Empty)
    ELSE NothingWritten

ServerLock(locked, returnedLockinfo, e) ==
    IF e \in {ErrConn, ErrRead, ErrCreate}
      THEN Written(StatusInternalServerError, ErrorText(e))
    ELSE IF e = Nil
      THEN Written(IF locked THEN StatusLocked ELSE StatusOK, returnedLockinfo)
    ELSE NothingWritten

ServerUnlock(e) ==
    IF e \in {ErrConn, ErrNotExist, ErrDelete}
      THEN Written(StatusInternalServerError, ErrorText(e))
    ELSE IF e = ErrNotExist THEN Written(StatusNotFound, ErrorText(e))
    ELSE IF e = Nil THEN Written(StatusOK, Empty)
    ELSE NothingWritten

(* The response to the request of caller p, whose store method has        *)
(* returned *)
Response(p) ==
    CASE op[p] = "Get" -> ServerGet(data[p], err[p])
      [] op[p] = "Update" -> ServerUpdate(err[p])
      [] op[p] = "Delete" -> ServerDelete(err[p])
      [] op[p] = "Lock" -> ServerLock(alreadyLocked[p], data[p], err[p])
      [] op[p] = "Unlock" -> ServerUnlock(err[p])

----------------------------------------------------------------------------
(* One step of the store method of caller p *)
Step(p) ==
    \/ GetGet(p)
    \/ UpdateExists(p)
    \/ UpdateCreate(p)
    \/ UpdateSet(p)
    \/ DeleteExists(p)
    \/ DeleteDelete(p)
    \/ LockExists(p)
    \/ LockGet(p)
    \/ LockCreate(p)
    \/ UnlockExists(p)
    \/ UnlockDelete(p)

(* Concurrent requests against a service that may fail at any moment *)
Next ==
    \/ \E p \in Callers : Call(p) \/ Step(p)
    \/ ServiceDown
    \/ ServiceUp

Spec == Init /\ [][Next]_vars

(* Requests served one after the other by a reachable service *)
NextSeq == \E p \in Callers : SeqCall(p) \/ Step(p) \/ ReturnLog(p)

SpecSeq == Init /\ [][NextSeq]_vars

(* Lock requests racing each other on a reachable service *)
NextLockRace == \E p \in Callers : LockCall(p) \/ LockExists(p) \/ LockGet(p) \/ LockCreate(p)

SpecLockRace == Init /\ [][NextLockRace]_vars

(* Update requests racing each other on a reachable service, for a name    *)
(* that has a state or has none                                            *)
NextUpdateRace ==
    \E p \in Callers : UpdateCall(p) \/ UpdateExists(p) \/ UpdateCreate(p) \/ UpdateSet(p)

SpecUpdateRace == InitStored /\ [][NextUpdateRace]_vars

(* Update and Delete requests interleaving on a reachable service *)
NextStateRace ==
    \E p \in Callers :
       \/ StateCall(p)
       \/ UpdateExists(p) \/ UpdateCreate(p) \/ UpdateSet(p)
       \/ DeleteExists(p) \/ DeleteDelete(p)

SpecStateRace == InitStored /\ [][NextStateRace]_vars

(* Lock and Unlock requests interleaving on a reachable service *)
NextLockUnlock ==
    \E p \in Callers :
       \/ LockUnlockCall(p)
       \/ LockExists(p) \/ LockGet(p) \/ LockCreate(p)
       \/ UnlockExists(p) \/ UnlockDelete(p)

SpecLockUnlock == Init /\ [][NextLockUnlock]_vars

----------------------------------------------------------------------------
(* Properties of the Lock race (SpecLockRace) *)

AllDone == \A p \in Callers : pc[p] = "done"

(* The callers whose Lock request is for name n *)
Racers(n) == {p \in Callers : op[p] = "Lock" /\ name[p] = n}

(* Lock returned (false, its own lockinfo, nil). *)
Acquired(p) == err[p] = Nil /\ ~alreadyLocked[p] /\ data[p] = body[p]

(* Lock returned (true, the lockinfo of w, nil). *)
FoundLockedBy(p, w) == err[p] = Nil /\ alreadyLocked[p] /\ data[p] = body[w]

(* Lock returned (false, empty, ErrCreate). *)
LostCreate(p) == err[p] = ErrCreate /\ ~alreadyLocked[p] /\ data[p] = Empty

(* C1, as stated: once N >= 2 racing Lock calls on a never-locked name     *)
(* have all returned, exactly one of them returned (false, its own info)   *)
(* and each of the others returned (true, the winner's info) with no       *)
(* error.                                                                  *)
C1_RaceAllOthersSeeWinner ==
    AllDone =>
      \A n \in Names :
        Cardinality(Racers(n)) >= 2 =>
          \E w \in Racers(n) :
            /\ Acquired(w)
            /\ \A q \in Racers(n) \ {w} : FoundLockedBy(q, w)

(* C1, amended: exactly one call returns (false, its own info); each of    *)
(* the others returns (true, the winner's info) with no error when its     *)
(* exists check found the winner's node, and (false, empty, ErrCreate)     *)
(* when its exists check ran before the winner's create.                   *)
C1_RaceOneWinner ==
    AllDone =>
      \A n \in Names :
        Cardinality(Racers(n)) >= 2 =>
          \E w \in Racers(n) :
            /\ Acquired(w)
            /\ \A q \in Racers(n) \ {w} :
                 /\ ~Acquired(q) \/ alreadyLocked[q]
                 /\ IF exists[q] THEN FoundLockedBy(q, w) ELSE LostCreate(q)

(* A race in which a loser saw the lock absent and lost the create, its    *)
(* lockinfo differing from the winner's.                                   *)
C1_Witness ==
    /\ AllDone
    /\ \E n \in Names : \E w, q \in Racers(n) :
         /\ w # q /\ Acquired(w) /\ LostCreate(q)
         /\ ~exists[q] /\ body[q] # body[w]
         /\ nodes[LockPath(n)].data = body[w]

----------------------------------------------------------------------------
(* Properties of concurrent runs (Spec) *)

(* C2: between two consecutive removals of a lock node (or from the start  *)
(* to its first removal) at most one Lock call returns (false, nil).       *)
C2_MutualExclusion == \A q \in Paths : wins[q] <= 1

(* Two Lock calls that both saw the lock absent: one acquired it, the      *)
(* other's create failed.                                                  *)
C2_Witness ==
    \E w, q \in Callers :
      /\ w # q
      /\ pc[w] = "done" /\ pc[q] = "done"
      /\ op[w] = "Lock" /\ op[q] = "Lock" /\ name[w] = name[q]
      /\ ~exists[w] /\ ~exists[q]
      /\ trace[w] = <<"connect", "exists", "create">>
      /\ trace[q] = <<"connect", "exists", "create">>
      /\ Acquired(w) /\ LostCreate(q)
      /\ wins[LockPath(name[w])] = 1

(* C3, as stated: the payload of a lock node never changes between its    *)
(* creation by a Lock call and its removal, whatever Lock, Get, Update and *)
(* Delete calls are made meanwhile: a step that leaves in place a lock     *)
(* node made by a Lock call leaves its payload as it was.                  *)
C3_LockPayloadImmutable ==
    [][\A n \in Names :
         LET q == LockPath(n) IN
           (Present(q) /\ wins[q] >= 1 /\ q \in DOMAIN nodes')
           => nodes'[q].data = nodes[q].data]_vars

(* C6: Unlock whose exists check finds no lock node returns ErrNotExist    *)
(* at once: no delete call is made and no node changes.                    *)
C6_UnlockAbsent ==
    [][\A p \in Callers :
         (/\ op[p] = "Unlock" /\ pc[p] = "exists" /\ pc'[p] # "exists"
          /\ up /\ ~Present(LockPath(name[p])))
         => /\ pc'[p] = "done"
            /\ err'[p] = ErrNotExist
            /\ trace'[p] = <<"connect", "exists">>
            /\ nodes' = nodes]_vars

(* An Unlock that found no lock node and returned ErrNotExist *)
C6_Witness ==
    \E p \in Callers :
      /\ pc[p] = "done" /\ op[p] = "Unlock"
      /\ err[p] = ErrNotExist /\ zkerr[p] = ZkOk /\ ~exists[p]
      /\ trace[p] = <<"connect", "exists">>
      /\ ~Present(LockPath(name[p]))

(* C9: Get whose read finds no state node returns ErrNotExist, and no      *)
(* step of a Get call creates or changes a node.                           *)
C9_GetAbsent ==
    [][\A p \in Callers :
         (op'[p] = "Get" /\ (pc'[p] # pc[p] \/ trace'[p] # trace[p]))
         => /\ nodes' = nodes
            /\ (/\ pc[p] = "get" /\ up /\ ~Present(StatePath(name[p])))
               => (pc'[p] = "done" /\ err'[p] = ErrNotExist /\ data'[p] = Empty)]_vars

(* A Get that read an absent state node and returned ErrNotExist *)
C9_Witness ==
    \E p \in Callers :
      /\ pc[p] = "done" /\ op[p] = "Get"
      /\ err[p] = ErrNotExist /\ zkerr[p] = ZkNoNode
      /\ trace[p] = <<"connect", "get">>
      /\ ~Present(StatePath(name[p]))

----------------------------------------------------------------------------
(* Properties of sequential runs on a reachable service (SpecSeq): hist    *)
(* holds the completed calls in the order they were made.                  *)

Calls == 1..Len(hist)

IsCall(i, o, n) == i \in Calls /\ hist[i].op = o /\ hist[i].name = n

(* Call i is a Lock that returned (false, its own lockinfo, nil). *)
LockAcquired(i) ==
    /\ hist[i].op = "Lock"
    /\ hist[i].err = Nil /\ ~hist[i].alreadyLocked /\ hist[i].data = hist[i].body

(* No request is between its last connection call and its return. *)
NoneReturning == \A q \in Callers : pc[q] # "done"

(* C4, as stated: a Lock on a name that has no lock node returns (false,   *)
(* its lockinfo), and every later Lock on that name made before any        *)
(* Unlock of it returns (true, that first lockinfo) with nil error.        *)
C4_LockHeldUntilUnlock ==
    \A i \in Calls :
      (hist[i].op = "Lock" /\ ~hist[i].exists) =>
        /\ LockAcquired(i)
        /\ \A j \in Calls :
             (/\ j > i
              /\ IsCall(j, "Lock", hist[i].name)
              /\ \A k \in Calls : (i < k /\ k < j) => ~IsCall(k, "Unlock", hist[i].name))
             => /\ hist[j].err = Nil
                /\ hist[j].alreadyLocked
                /\ hist[j].data = hist[i].body

(* C5: when a Lock that returned alreadyLocked=false is followed by        *)
(* Unlock of the same name, the Unlock returns nil and the lock node is    *)
(* gone, and a Lock of that name that follows the Unlock returns (false,   *)
(* its own lockinfo) and stores that lockinfo.                             *)
C5_UnlockThenRelock ==
    \A i \in Calls :
      (LockAcquired(i) /\ IsCall(i + 1, "Unlock", hist[i].name)) =>
        /\ hist[i + 1].err = Nil
        /\ hist[i + 1].trace = <<"connect", "exists", "delete">>
        /\ (Len(hist) = i + 1 /\ NoneReturning) => ~Present(LockPath(hist[i].name))
        /\ IsCall(i + 2, "Lock", hist[i].name) =>
             /\ LockAcquired(i + 2)
             /\ (Len(hist) = i + 2 /\ NoneReturning) =>
                  /\ Present(LockPath(hist[i].name))
                  /\ nodes[LockPath(hist[i].name)].data = hist[i + 2].body

(* Lock, Unlock, Lock of one name, the second Lock with another lockinfo *)
C5_Witness ==
    /\ Len(hist) = 3 /\ NoneReturning
    /\ LockAcquired(1)
    /\ IsCall(2, "Unlock", hist[1].name) /\ hist[2].err = Nil
    /\ IsCall(3, "Lock", hist[1].name) /\ LockAcquired(3)
    /\ hist[3].body # hist[1].body
    /\ nodes[LockPath(hist[1].name)].data = hist[3].body

(* C7: an Update followed at once by a Get of the same name: the Update    *)
(* returns nil and the Get returns exactly the Update's payload with nil   *)
(* error, on the create path as on the set path.                           *)
C7_UpdateGetRoundTrip ==
    \A i \in Calls :
      (hist[i].op = "Update" /\ IsCall(i + 1, "Get", hist[i].name)) =>
        /\ hist[i].err = Nil
        /\ hist[i + 1].err = Nil
        /\ hist[i + 1].data = hist[i].body

(* A round trip on the create path and one on the set path *)
C7_Witness ==
    /\ \E i \in Calls :
         /\ hist[i].op = "Update" /\ hist[i].trace = <<"connect", "exists", "set">>
         /\ IsCall(i + 1, "Get", hist[i].name)
         /\ hist[i + 1].data = hist[i].body /\ hist[i].body # Empty
         /\ hist[i + 1].err = Nil
    /\ hist[1].op = "Update" /\ hist[1].trace = <<"connect", "exists", "create">>

(* The version of the state node after the Update that is call i *)
VersionAfterUpdate(i) ==
    IF hist[i].trace = <<"connect", "exists", "create">> THEN 0 ELSE hist[i].stat + 1

(* C8: Update(p1), Update(p2), Get of one name in a row: all three return  *)
(* nil, the Get returns p2, and the second Update takes the set path with  *)
(* the version the first Update produced.                                  *)
C8_LastWriteWins ==
    \A i \in Calls :
      (/\ hist[i].op = "Update"
       /\ IsCall(i + 1, "Update", hist[i].name)
       /\ IsCall(i + 2, "Get", hist[i].name)) =>
        /\ hist[i].err = Nil /\ hist[i + 1].err = Nil /\ hist[i + 2].err = Nil
        /\ hist[i + 2].data = hist[i + 1].body
        /\ hist[i + 1].exists
        /\ hist[i + 1].trace = <<"connect", "exists", "set">>
        /\ hist[i + 1].stat = VersionAfterUpdate(i)

(* Two Updates with different payloads, then a Get that returns the second *)
C8_Witness ==
    /\ Len(hist) = 3
    /\ hist[1].op = "Update"
    /\ IsCall(2, "Update", hist[1].name)
    /\ IsCall(3, "Get", hist[1].name)
    /\ hist[2].body # hist[1].body
    /\ hist[3].data = hist[2].body /\ hist[3].err = Nil

(* C10: the steps of a Delete call.  Its exists check of an absent state   *)
(* node ends the call with ErrNotExist, no delete call made and no node    *)
(* changed; after its exists check of a present node its delete call       *)
(* removes that node and nothing else, and the call returns nil.           *)
C10_Delete ==
    [][\A p \in Callers :
         (op[p] = "Delete" /\ pc'[p] # pc[p]) =>
           LET znode == StatePath(name[p]) IN
             CASE pc[p] = "exists" ->
                    /\ nodes' = nodes
                    /\ IF Present(znode)
                         THEN pc'[p] = "delete"
                         ELSE /\ pc'[p] = "done"
                              /\ err'[p] = ErrNotExist
                              /\ trace'[p] = <<"connect", "exists">>
               [] pc[p] = "delete" ->
                    /\ Present(znode)
                    /\ nodes' = [q \in DOMAIN nodes \ {znode} |-> nodes[q]]
                    /\ pc'[p] = "done"
                    /\ err'[p] = Nil
               [] OTHER -> TRUE]_vars

(* A Delete that removed an existing state node, and then a Delete of      *)
(* the same name that found nothing.                                       *)
C10_Witness ==
    \E i \in Calls :
      /\ hist[i].op = "Delete" /\ hist[i].exists /\ hist[i].err = Nil
      /\ hist[i].trace = <<"connect", "exists", "delete">>
      /\ IsCall(i + 1, "Delete", hist[i].name)
      /\ ~hist[i + 1].exists /\ hist[i + 1].err = ErrNotExist
      /\ hist[i + 1].trace = <<"connect", "exists">>

----------------------------------------------------------------------------
(* Further properties of concurrent runs (Spec) *)

(* Caller p's call makes a step: its request arrives or its method makes   *)
(* a connection call.                                                      *)
Acts(p) == pc'[p] # pc[p] \/ trace'[p] # trace[p]

C12_Unreachable ==
    [][(ncalls' # ncalls /\ ~up) =>
         /\ nodes' = nodes
         /\ \E p \in Callers :
              /\ \A q \in Callers \ {p} : ~Acts(q)
              /\ pc'[p] = "done"
              /\ err'[p] = ErrConn
              /\ trace'[p] = <<"connect">>
              /\ ~alreadyLocked'[p] /\ data'[p] = Empty]_vars

(* With a state stored and the service unreachable, a Lock has returned    *)
(* (false, empty, ErrConn) after the connect attempt alone, and the        *)
(* stored state is as the Update left it.                                  *)
C12_Witness ==
    /\ ~up
    /\ \E p, q \in Callers :
         /\ pc[p] = "done" /\ op[p] = "Lock" /\ err[p] = ErrConn
         /\ trace[p] = <<"connect">> /\ ~alreadyLocked[p] /\ data[p] = Empty
         /\ body[p] # Empty
         /\ pc[q] = "done" /\ op[q] = "Update" /\ err[q] = Nil
         /\ nodes = (StatePath(name[q]) :> [data |-> body[q], version |-> 0])

(* The nodes that the step creates, changes or removes *)
Changed == {q \in Paths : ~SameNode(q)}

(* C16: a step of a call that does not end the call changes no node; a     *)
(* step that ends an Update, Delete, Lock or Unlock call with an error     *)
(* changes no node, the earlier steps having changed none; a step that     *)
(* ends such a call with nil has applied one create, set or delete to the  *)
(* znode of the call and to no other node, or, in a Lock that found the    *)
(* lock node, has changed no node.                                         *)
C16_NoPartialSuccess ==
    [][\A p \in Callers :
         Acts(p) =>
           IF pc'[p] # "done" THEN Changed = {}
           ELSE op'[p] # "Get" =>
                  IF err'[p] # Nil
                    THEN /\ Changed = {}
                         /\ err'[p] \in {ErrConn, ErrRead, ErrNotExist,
                                         ErrCreate, ErrUpdate, ErrDelete}
                    ELSE IF op'[p] = "Lock" /\ alreadyLocked'[p]
                           THEN Changed = {}
                           ELSE /\ Changed = {Znode(op'[p], name'[p])}
                                /\ trace'[p][Len(trace'[p])] \in {"create", "set", "delete"}
                                /\ zkerr'[p] = ZkOk]_vars

(* An Update whose set failed because the service went away after the      *)
(* exists check returned ErrUpdate, and the state node is as it was read.  *)
C16_Witness ==
    \E p \in Callers :
      /\ pc[p] = "done" /\ op[p] = "Update" /\ err[p] = ErrUpdate
      /\ trace[p] = <<"connect", "exists", "set">>
      /\ zkerr[p] = ZkClosed /\ exists[p]
      /\ Present(StatePath(name[p]))
      /\ nodes[StatePath(name[p])].version = stat[p]
      /\ nodes[StatePath(name[p])].data # body[p]

(* A response that reports a failure: a 4xx or 5xx status *)
IsFailure(r) == r.wrote /\ r.status >= 400

(* C17, as stated: whenever a store method has returned an error, the      *)
(* handler that called it answers with a failure status and the text of    *)
(* that error, never with an empty success response.                       *)
C17_ErrorsReported ==
    \A p \in Callers :
      (pc[p] = "done" /\ err[p] # Nil) =>
        /\ IsFailure(Response(p))
        /\ Response(p).body = ErrorText(err[p])

(* C18, as stated: when Delete or Unlock of the store has returned         *)
(* ErrNotExist, the handler answers 404, not the 500 it answers for        *)
(* ErrConn and ErrDelete.                                                  *)
C18_NotFoundStatus ==
    \A p \in Callers :
      (pc[p] = "done" /\ op[p] \in {"Delete", "Unlock"} /\ err[p] = ErrNotExist) =>
        /\ Response(p).status = StatusNotFound
        /\ Response(p).status # ServerDelete(ErrConn).status
        /\ Response(p).status # ServerUnlock(ErrDelete).status

(* The connection calls of a method call that runs to its last call *)
CallShapes(o) ==
    CASE o = "Get" -> {<<"connect", "get">>}
      [] o = "Update" -> {<<"connect", "exists", "create">>,
                          <<"connect", "exists", "set">>}
      [] o = "Lock" -> {<<"connect", "exists", "get">>,
                        <<"connect", "exists", "create">>}
      [] o \in {"Delete", "Unlock"} -> {<<"connect", "exists", "delete">>}

IsPrefix(t, u) == Len(t) <= Len(u) /\ \A i \in 1..Len(t) : t[i] = u[i]

(* C19: the connection calls a method call has made are one connect, then  *)
(* one exists or get, then (Lock on an existing lock) one get or one       *)
(* create, set or delete, and no more; a call that is still to make a      *)
(* connection call has made fewer than three and has met no error, so the  *)
(* first failing call, a lost create or version race included, ends it.    *)
C19_NoRetry ==
    \A p \in Callers :
      pc[p] # "idle" =>
        /\ \E u \in CallShapes(op[p]) : IsPrefix(trace[p], u)
        /\ Len(trace[p]) >= 1
        /\ pc[p] # "done" =>
             /\ zkerr[p] = ZkOk /\ err[p] = Nil
             /\ Len(trace[p]) < Len(CHOOSE u \in CallShapes(op[p]) : TRUE)
        /\ (pc[p] = "done" /\ zkerr[p] # ZkOk) => err[p] # Nil

(* An Update that lost the create race to another Update returned          *)
(* ErrCreate after its one create call.                                    *)
C19_Witness ==
    \E p, q \in Callers :
      /\ p # q /\ pc[p] = "done" /\ pc[q] = "done"
      /\ op[p] = "Update" /\ op[q] = "Update" /\ name[p] = name[q]
      /\ trace[p] = <<"connect", "exists", "create">> /\ trace[q] = trace[p]
      /\ err[p] = ErrCreate /\ zkerr[p] = ZkNodeExists
      /\ err[q] = Nil

----------------------------------------------------------------------------
(* Properties of the Update race (SpecUpdateRace) *)

(* The callers whose Update request is for name n *)
Updaters(n) == {p \in Callers : op[p] = "Update" /\ name[p] = n}

(* C13: once Update calls of two or more callers for one name have all     *)
(* returned, all of them having found the state node absent, exactly one   *)
(* returned nil and every other ErrCreate, and the state node holds the    *)
(* payload of the one that returned nil.                                   *)
C13_CreateRace ==
    AllDone =>
      \A n \in Names :
        (Cardinality(Updaters(n)) >= 2 /\ \A p \in Updaters(n) : ~exists[p]) =>
          \E w \in Updaters(n) :
            /\ err[w] = Nil
            /\ \A q \in Updaters(n) \ {w} : err[q] = ErrCreate
            /\ nodes[StatePath(n)] = [data |-> body[w], version |-> 0]

(* Two Updates of a new name with different payloads: both saw it absent,  *)
(* one created it, the other's create failed.                              *)
C13_Witness ==
    /\ AllDone
    /\ \E w, q \in Callers :
         /\ w # q /\ w \in Updaters(name[q]) /\ q \in Updaters(name[w])
         /\ ~exists[w] /\ ~exists[q]
         /\ trace[w] = <<"connect", "exists", "create">> /\ trace[q] = trace[w]
         /\ err[w] = Nil /\ err[q] = ErrCreate /\ zkerr[q] = ZkNodeExists
         /\ body[q] # body[w]
         /\ nodes[StatePath(name[w])].data = body[w]

(* C14: once Update calls of two or more callers for one name have all     *)
(* returned, all of them having read the same version of the existing      *)
(* state node, exactly one returned nil and every other ErrUpdate, and     *)
(* the state node holds the payload of the one that returned nil at the    *)
(* version that follows the one read.                                      *)
C14_VersionRace ==
    AllDone =>
      \A n \in Names :
        (/\ Cardinality(Updaters(n)) >= 2
         /\ \A p \in Updaters(n) : exists[p]
         /\ \A p, q \in Updaters(n) : stat[p] = stat[q]) =>
          \E w \in Updaters(n) :
            /\ err[w] = Nil
            /\ \A q \in Updaters(n) \ {w} : err[q] = ErrUpdate
            /\ nodes[StatePath(n)] = [data |-> body[w], version |-> stat[w] + 1]

(* Two Updates of a stored state with different payloads: both read the    *)
(* same version, one set went through, the other met a changed version.    *)
C14_Witness ==
    /\ AllDone
    /\ \E w, q \in Callers :
         /\ w # q /\ w \in Updaters(name[q]) /\ q \in Updaters(name[w])
         /\ exists[w] /\ exists[q] /\ stat[w] = stat[q] /\ stat[w] > 0
         /\ trace[w] = <<"connect", "exists", "set">> /\ trace[q] = trace[w]
         /\ err[w] = Nil /\ err[q] = ErrUpdate /\ zkerr[q] = ZkBadVersion
         /\ body[q] # body[w]
         /\ nodes[StatePath(name[w])] = [data |-> body[w], version |-> stat[w] + 1]

----------------------------------------------------------------------------
(* Properties of interleaved Update and Delete calls (SpecStateRace) *)

(* C15, as stated: an Update whose create or set succeeds, so that it      *)
(* returns nil, has had no other call create, overwrite or delete its      *)
(* state node since its own exists check.                                  *)
C15_NoLostUpdate ==
    [][\A p \in Callers :
         (/\ op[p] = "Update" /\ pc[p] \in {"create", "set"}
          /\ pc'[p] = "done" /\ err'[p] = Nil)
         => fresh[p]]_vars

----------------------------------------------------------------------------
(* Properties of interleaved Lock and Unlock calls (SpecLockUnlock) *)

(* C20, as stated: when the lock node that an Unlock found in its exists   *)
(* check has since been removed by another Unlock and made anew by a Lock  *)
(* call, the delete of the first Unlock fails: the Unlock returns          *)
(* ErrDelete and the new lock node stays as it is.                         *)
C20_UnlockOnlyObserved ==
    [][\A p \in Callers :
         (/\ op[p] = "Unlock" /\ pc[p] = "delete" /\ pc'[p] = "done"
          /\ ~fresh[p]
          /\ Present(LockPath(name[p])) /\ wins[LockPath(name[p])] = 1)
         => /\ err'[p] = ErrDelete
            /\ nodes' = nodes]_vars

====
